---- MODULE Spec2Model ----
(***************************************************************************)
(* Resolution of the boolean flags NoSymlink and TotalSize of lsd from the *)
(* parsed command line (clap ArgMatches), the configuration file (an       *)
(* optional yaml_rust Yaml document) and the derived Default.              *)
(*                                                                         *)
(* Option<T> is modelled as a sequence of length at most one:              *)
(* None == <<>> and Some(x) == <<x>>.                                      *)
(***************************************************************************)
EXTENDS Integers, Sequences, FiniteSets, TLC

VARIABLES matches, config, warnings, panicked, pc, result, consulted,
          argHist, cfgHist

vars == <<matches, config, warnings, panicked, pc, result, consulted,
          argHist, cfgHist>>

\* Bounds on the number of direct reader calls per flag.
MaxConfigCalls == 2
MaxArgCalls == 1

----------------------------------------------------------------------------
\* Option<T>
None == <<>>
Some(x) == <<x>>
is_some(o) == Len(o) = 1
unwrap(o) == o[1]

\* The flag types implementing Configurable.
Flags == {"NoSymlink", "TotalSize"}

\* The names the two flags look up, as CLI switches and as config keys.
Keys == {"no-symlink", "total-size"}

\* pub struct NoSymlink(pub bool);  pub struct TotalSize(pub bool);
NoSymlink(b) == [flag |-> "NoSymlink", value |-> b]
TotalSize(b) == [flag |-> "TotalSize", value |-> b]

\* yaml_rust::Yaml variants.  Payloads other than the boolean are irrelevant
\* to the match arms and are abstracted (b = FALSE).
YamlKinds == {"Real", "Integer", "String", "Boolean", "Array", "Hash",
              "Alias", "Null", "BadValue"}
Yaml(k, b) == [kind |-> k, b |-> b]
BadValue == Yaml("BadValue", FALSE)
YamlValues == {Yaml(k, FALSE) : k \in YamlKinds} \cup {Yaml("Boolean", TRUE)}

\* An entry of a Yaml::Hash under one of the keys: a Yaml value, or no entry.
NoEntry == Yaml("NoEntry", FALSE)
Entries == YamlValues \cup {NoEntry}

\* Config { yaml: Option<Yaml>, .. }: Config::with_none() or
\* Config::with_yaml(root).  A root that is a Hash carries its entries; any
\* other root carries none.
EmptyHash == [k \in Keys |-> NoEntry]
ConfigNone == [loaded |-> FALSE, kind |-> "BadValue", b |-> FALSE, hash |-> EmptyHash]
ConfigWithHash(h) == [loaded |-> TRUE, kind |-> "Hash", b |-> FALSE, hash |-> h]
ConfigWithScalar(y) == [loaded |-> TRUE, kind |-> y.kind, b |-> y.b, hash |-> EmptyHash]
Configs == {ConfigNone}
           \cup {ConfigWithHash(h) : h \in [Keys -> Entries]}
           \cup {ConfigWithScalar(y) : y \in {v \in YamlValues : v.kind # "Hash"}}

\* yaml[key]: indexing a Yaml by a string yields the entry when the Yaml is a
\* Hash that contains the key, and BadValue otherwise.
Index(yaml, key) ==
    IF yaml.kind = "Hash" /\ yaml.hash[key] # NoEntry
    THEN yaml.hash[key]
    ELSE BadValue

\* matches.is_present(name)
is_present(m, name) == name \in m

----------------------------------------------------------------------------
\* The value returned by a reader of the configuration together with its
\* effects: the calls it makes to config.print_wrong_type_warning and
\* whether it panics.
Ret(r, w) == [ret |-> r, warn |-> w, panic |-> FALSE]

NoSymlink_from_arg_matches_never(m) == None
NoSymlink_from_arg_matches(m) ==
    IF is_present(m, "no-symlink") THEN Some(NoSymlink(TRUE)) ELSE None

TotalSize_from_arg_matches_false(m) ==
    IF is_present(m, "total-size") THEN Some(TotalSize(TRUE)) ELSE Some(TotalSize(FALSE))
TotalSize_from_arg_matches(m) ==
    IF is_present(m, "total-size") THEN Some(TotalSize(TRUE)) ELSE None

NoSymlink_from_config_negated(c) ==
    IF c.loaded
    THEN LET y == Index(c, "no-symlink") IN
         CASE y.kind = "BadValue" -> Ret(None, <<>>)
           [] y.kind = "Boolean" -> Ret(Some(NoSymlink(~y.b)), <<>>)
           [] OTHER -> Ret(None, << <<"no-symlink", "boolean">> >>)
    ELSE Ret(None, <<>>)
NoSymlink_from_config_silent(c) ==
    IF c.loaded
    THEN LET y == Index(c, "no-symlink") IN
         CASE y.kind = "BadValue" -> Ret(None, <<>>)
           [] y.kind = "Boolean" -> Ret(Some(NoSymlink(y.b)), <<>>)
           [] OTHER -> Ret(None, <<>>)
    ELSE Ret(None, <<>>)
NoSymlink_from_config(c) ==
    IF c.loaded
    THEN LET y == Index(c, "no-symlink") IN
         CASE y.kind = "BadValue" -> Ret(None, <<>>)
           [] y.kind = "Boolean" -> Ret(Some(NoSymlink(y.b)), <<>>)
           [] OTHER -> Ret(None, << <<"no-symlink", "boolean">> >>)
    ELSE Ret(None, <<>>)

TotalSize_from_config_always_true(c) ==
    IF c.loaded
    THEN LET y == Index(c, "total-size") IN
         CASE y.kind = "BadValue" -> Ret(None, <<>>)
           [] y.kind = "Boolean" -> Ret(Some(TotalSize(TRUE)), <<>>)
           [] OTHER -> Ret(None, << <<"total-size", "boolean">> >>)
    ELSE Ret(None, <<>>)
TotalSize_from_config_warn_absent(c) ==
    IF c.loaded
    THEN LET y == Index(c, "total-size") IN
         CASE y.kind = "Boolean" -> Ret(Some(TotalSize(y.b)), <<>>)
           [] OTHER -> Ret(None, << <<"total-size", "boolean">> >>)
    ELSE Ret(None, <<>>)
TotalSize_from_config_panics(c) ==
    IF c.loaded
    THEN LET y == Index(c, "total-size") IN
         CASE y.kind = "BadValue" -> Ret(None, <<>>)
           [] y.kind = "Boolean" -> Ret(Some(TotalSize(y.b)), <<>>)
           [] OTHER -> [ret |-> None, warn |-> <<>>, panic |-> TRUE]
    ELSE Ret(None, <<>>)
TotalSize_from_config(c) ==
    IF c.loaded
    THEN LET y == Index(c, "total-size") IN
         CASE y.kind = "BadValue" -> Ret(None, <<>>)
           [] y.kind = "Boolean" -> Ret(Some(TotalSize(y.b)), <<>>)
           [] OTHER -> Ret(None, << <<"total-size", "boolean">> >>)
    ELSE Ret(None, <<>>)

\* #[derive(Default)] on a wrapper of bool: the wrapped bool::default().
NoSymlink_default_true == NoSymlink(TRUE)
NoSymlink_default == NoSymlink(FALSE)
TotalSize_default == TotalSize(FALSE)

\* Configurable<T>: the implementation selected by the flag type.
from_arg_matches(f, m) ==
    IF f = "NoSymlink" THEN NoSymlink_from_arg_matches(m)
                       ELSE TotalSize_from_arg_matches(m)
from_config(f, c) ==
    IF f = "NoSymlink" THEN NoSymlink_from_config(c)
                       ELSE TotalSize_from_config(c)
default(f) ==
    IF f = "NoSymlink" THEN NoSymlink_default ELSE TotalSize_default

\* Config::print_wrong_type_warning(name, expected): one line on stderr that
\* names the key and the expected type.
print_wrong_type_warning(log, name, expected) ==
    Append(log, [key |-> name, expected |-> expected])

RECURSIVE Emit(_, _)
Emit(log, calls) ==
    IF calls = <<>> THEN log
    ELSE Emit(print_wrong_type_warning(log, calls[1][1], calls[1][2]), Tail(calls))

\* Configurable::configure_from(matches, config): try from_arg_matches; if
\* None, try from_config; if still None, use Default::default().
configure_from(f, m, c) ==
    LET a == from_arg_matches(f, m) IN
    IF is_some(a)
    THEN [value |-> Some(unwrap(a)), warn |-> <<>>, panic |-> FALSE,
          consulted |-> <<"from_arg_matches">>]
    ELSE LET r == from_config(f, c) IN
         IF r.panic
         THEN [value |-> None, warn |-> r.warn, panic |-> TRUE,
               consulted |-> <<"from_arg_matches", "from_config">>]
         ELSE IF is_some(r.ret)
         THEN [value |-> Some(unwrap(r.ret)), warn |-> r.warn, panic |-> FALSE,
               consulted |-> <<"from_arg_matches", "from_config">>]
         ELSE [value |-> Some(default(f)), warn |-> r.warn, panic |-> FALSE,
               consulted |-> <<"from_arg_matches", "from_config", "default">>]

----------------------------------------------------------------------------
Init ==
    /\ matches \in SUBSET Keys
    /\ config \in Configs
    /\ warnings = <<>>
    /\ panicked = FALSE
    /\ pc = [f \in Flags |-> "idle"]
    /\ result = [f \in Flags |-> None]
    /\ consulted = [f \in Flags |-> <<>>]
    /\ argHist = [f \in Flags |-> <<>>]
    /\ cfgHist = [f \in Flags |-> <<>>]

\* A direct call of T::from_arg_matches(&matches).
CallFromArgMatches(f) ==
    /\ ~panicked
    /\ Len(argHist[f]) < MaxArgCalls
    /\ argHist' = [argHist EXCEPT ![f] = Append(@, from_arg_matches(f, matches))]
    /\ UNCHANGED <<matches, config, warnings, panicked, pc, result, consulted, cfgHist>>

\* A direct call of T::from_config(&config).
CallFromConfig(f) ==
    /\ ~panicked
    /\ Len(cfgHist[f]) < MaxConfigCalls
    /\ LET r == from_config(f, config) IN
       /\ warnings' = Emit(warnings, r.warn)
       /\ panicked' = r.panic
       /\ cfgHist' = IF r.panic THEN cfgHist
                     ELSE [cfgHist EXCEPT ![f] = Append(@, r.ret)]
    /\ UNCHANGED <<matches, config, pc, result, consulted, argHist>>

\* T::configure_from(&matches, &config), run once per flag at startup.
ConfigureFrom(f) ==
    /\ ~panicked
    /\ pc[f] = "idle"
    /\ LET r == configure_from(f, matches, config) IN
       /\ warnings' = Emit(warnings, r.warn)
       /\ panicked' = r.panic
       /\ pc' = [pc EXCEPT ![f] = IF r.panic THEN "panicked" ELSE "returned"]
       /\ result' = [result EXCEPT ![f] = r.value]
       /\ consulted' = [consulted EXCEPT ![f] = r.consulted]
    /\ UNCHANGED <<matches, config, argHist, cfgHist>>

Next ==
    \/ \E f \in Flags : CallFromArgMatches(f)
    \/ \E f \in Flags : CallFromConfig(f)
    \/ \E f \in Flags : ConfigureFrom(f)

Spec == Init /\ [][Next]_vars

----------------------------------------------------------------------------
\* Vocabulary of the properties: the inputs of a resolution, classified from
\* the command line and the document alone.
KeyOf(f) == IF f = "NoSymlink" THEN "no-symlink" ELSE "total-size"
FlagValue(f, b) == [flag |-> f, value |-> b]
SwitchPresent(f) == KeyOf(f) \in matches
NoDocument == ~config.loaded
KeyAbsent(f) ==
    config.loaded /\ (config.kind # "Hash" \/ config.hash[KeyOf(f)] = NoEntry)
KeyBoolean(f, b) ==
    config.loaded /\ config.kind = "Hash"
    /\ config.hash[KeyOf(f)] = Yaml("Boolean", b)
NonBooleanTypes == {"String", "Integer", "Real", "Null", "Array", "Hash", "Alias"}
KeyWrongType(f) ==
    config.loaded /\ config.kind = "Hash"
    /\ config.hash[KeyOf(f)].kind \in NonBooleanTypes
Warning(f) == [key |-> KeyOf(f), expected |-> "boolean"]
WarningsFor(f) == Cardinality({i \in 1..Len(warnings) : warnings[i] = Warning(f)})
ConfigReads(f) ==
    Len(cfgHist[f])
    + (IF \E i \in 1..Len(consulted[f]) : consulted[f][i] = "from_config" THEN 1 ELSE 0)
Last(s) == s[Len(s)]

\* C1: whenever the CLI switch of a flag is present, configure_from returns
\* Flag(true), whatever the config holds (no document, key absent, true,
\* false, or a non-boolean value).
C1_Precedence ==
    \A f \in Flags :
        (pc[f] # "idle" /\ SwitchPresent(f)) =>
            (pc[f] = "returned" /\ result[f] = Some(FlagValue(f, TRUE)))
C1_Witness ==
    /\ pc["NoSymlink"] = "returned" /\ SwitchPresent("NoSymlink")
    /\ KeyBoolean("NoSymlink", FALSE)
    /\ pc["TotalSize"] = "returned" /\ SwitchPresent("TotalSize")
    /\ KeyWrongType("TotalSize")
    /\ result["NoSymlink"] = Some(NoSymlink(TRUE))

\* C2: with the CLI switch absent and a boolean b under the flag's key,
\* configure_from returns Flag(b), for b = true and for b = false.
C2_ConfigOverridesDefault ==
    \A f \in Flags : \A b \in BOOLEAN :
        (pc[f] # "idle" /\ ~SwitchPresent(f) /\ KeyBoolean(f, b)) =>
            (pc[f] = "returned" /\ result[f] = Some(FlagValue(f, b)))
C2_Witness ==
    /\ matches = {}
    /\ KeyBoolean("NoSymlink", TRUE) /\ KeyBoolean("TotalSize", FALSE)
    /\ result["NoSymlink"] = Some(NoSymlink(TRUE))
    /\ result["TotalSize"] = Some(TotalSize(FALSE))

\* C3: with the CLI switch absent and either no document or no entry under
\* the flag's key, configure_from returns default(), which is Flag(false).
C3_FallbackChain ==
    \A f \in Flags :
        (pc[f] # "idle" /\ ~SwitchPresent(f) /\ (NoDocument \/ KeyAbsent(f))) =>
            /\ pc[f] = "returned"
            /\ result[f] = Some(default(f))
            /\ result[f] = Some(FlagValue(f, FALSE))
C3_Witness ==
    /\ matches = {}
    /\ KeyAbsent("NoSymlink") /\ config.kind = "Hash"
    /\ KeyBoolean("TotalSize", TRUE)
    /\ pc["NoSymlink"] = "returned"
    /\ result["NoSymlink"] = Some(NoSymlink(FALSE))

\* C4: when the key holds a non-boolean value, every from_config call
\* returns None and emits exactly one warning naming the key and "boolean";
\* with the switch absent, configure_from then returns Flag(false) and
\* nothing aborts.
C4_TypeSafety ==
    [][\A f \in Flags :
          /\ (CallFromConfig(f) /\ KeyWrongType(f)) =>
                /\ warnings' = Append(warnings, Warning(f))
                /\ cfgHist'[f] = Append(cfgHist[f], None)
                /\ ~panicked'
          /\ (ConfigureFrom(f) /\ KeyWrongType(f) /\ ~SwitchPresent(f)) =>
                /\ warnings' = Append(warnings, Warning(f))
                /\ pc'[f] = "returned"
                /\ result'[f] = Some(FlagValue(f, FALSE))
                /\ result'[f] = Some(default(f))
                /\ ~panicked']_vars
C4_Witness ==
    /\ matches = {}
    /\ KeyWrongType("NoSymlink") /\ KeyWrongType("TotalSize")
    /\ pc["NoSymlink"] = "returned" /\ pc["TotalSize"] = "returned"
    /\ Len(cfgHist["TotalSize"]) = 1
    /\ Len(warnings) = 3

\* C5: for every combination of switch and config state configure_from
\* returns exactly one of Flag(true), Flag(false); it never returns an
\* absence and never aborts.
C5_Totality ==
    /\ ~panicked
    /\ \A f \in Flags :
          pc[f] # "idle" =>
              /\ pc[f] = "returned"
              /\ result[f] \in {Some(FlagValue(f, TRUE)), Some(FlagValue(f, FALSE))}
C5_Witness ==
    /\ matches = {"no-symlink"}
    /\ KeyWrongType("NoSymlink") /\ KeyWrongType("TotalSize")
    /\ pc["NoSymlink"] = "returned" /\ pc["TotalSize"] = "returned"

\* C6: from_config returns Some(Flag(b)) exactly when a document is loaded
\* and the flag's key holds the boolean b; in every other case it returns
\* None.
C6_FromConfigValue ==
    \A f \in Flags : \A i \in 1..Len(cfgHist[f]) :
        /\ \A b \in BOOLEAN :
              (cfgHist[f][i] = Some(FlagValue(f, b))) <=> KeyBoolean(f, b)
        /\ (~\E b \in BOOLEAN : KeyBoolean(f, b)) => cfgHist[f][i] = None
C6_Witness ==
    /\ KeyBoolean("NoSymlink", FALSE) /\ KeyWrongType("TotalSize")
    /\ cfgHist["NoSymlink"] = <<Some(NoSymlink(FALSE))>>
    /\ cfgHist["TotalSize"] = <<None>>

\* C7: from_arg_matches returns Some(Flag(true)) exactly when the flag's
\* switch is present and None otherwise; it never returns Some(Flag(false)).
C7_FromArgMatches ==
    \A f \in Flags : \A i \in 1..Len(argHist[f]) :
        /\ (argHist[f][i] = Some(FlagValue(f, TRUE))) <=> SwitchPresent(f)
        /\ ~SwitchPresent(f) => argHist[f][i] = None
        /\ argHist[f][i] # Some(FlagValue(f, FALSE))
C7_Witness ==
    /\ matches = {"no-symlink"}
    /\ argHist["NoSymlink"] = <<Some(NoSymlink(TRUE))>>
    /\ argHist["TotalSize"] = <<None>>

\* C8: a from_config call emits no warning when no document is loaded, when
\* the key is absent (also for a non-mapping document) or when the key
\* holds a boolean; a warning is emitted only on a type mismatch.
C8_SilentWhenMissing ==
    [][\A f \in Flags :
          (CallFromConfig(f) \/ ConfigureFrom(f)) =>
              /\ (NoDocument \/ KeyAbsent(f) \/ \E b \in BOOLEAN : KeyBoolean(f, b))
                    => warnings' = warnings
              /\ warnings' # warnings => KeyWrongType(f)]_vars
C8_Witness ==
    /\ matches = {}
    /\ config.loaded /\ config.kind = "Null"
    /\ Len(cfgHist["NoSymlink"]) = 1 /\ Len(cfgHist["TotalSize"]) = 1
    /\ pc["TotalSize"] = "returned"
    /\ warnings = <<>>

\* C9: repeated from_config calls on the same document return the same
\* result every time and leave the document unchanged; warnings are not
\* deduplicated: n calls on a wrongly typed key have emitted n warnings.
C9_Idempotence ==
    /\ [](\A f \in Flags :
            /\ \A i, j \in 1..Len(cfgHist[f]) : cfgHist[f][i] = cfgHist[f][j]
            /\ KeyWrongType(f) =>
                  /\ WarningsFor(f) = ConfigReads(f)
                  /\ \A i \in 1..Len(cfgHist[f]) : cfgHist[f][i] = None)
    /\ [][config' = config]_vars
C9_Witness ==
    /\ KeyWrongType("NoSymlink")
    /\ cfgHist["NoSymlink"] = <<None, None>>
    /\ WarningsFor("NoSymlink") = 2

====
